---- MODULE Spec2Model ----
(***************************************************************************)
(* html2md: the Converter of src/html2md.hpp (lines 151-911).              *)
(*                                                                         *)
(* A std::string is a sequence of characters; a character is a string of   *)
(* length one ("a", "<", "\n"), and the bytes that are not ASCII are       *)
(* written "xE2", "x86", ...; so is the backtick, "x60".  One step of the  *)
(* state machine is one iteration of the loop of Convert2Md.               *)
(***************************************************************************)
EXTENDS Integers, Sequences, FiniteSets, TLC

VARIABLES
  pc,                         \* position inside Converter::Convert
  html,                       \* *html, the caller's string (Convert, PrepareHtml)
  pos,                        \* 1-based position of the range-for of Convert2Md
  html_,                      \* the copy the constructor takes
  index_ch_in_html_, offset_lt_,
  is_in_tag_, is_closing_tag_, is_in_attribute_value_,
  prev_ch_in_md_, prev_prev_ch_in_md_, prev_ch_in_html_,
  current_tag_, prev_tag_, current_href_,
  chars_in_curr_line_, char_index_in_tag_content,
  md_, md_len_, dom_tags_,
  tidied,                     \* the value of *md after TidyAllLines in CleanUpMarkdown
  out,                        \* the string Convert returns
  oob,                        \* an index out of range has been evaluated
  tag_at,                     \* history: the position in html of the last '<' that opened a tag
  elems,                      \* history: the elements open at the current position
  prior                       \* history: what the earlier calls of Convert in this process returned

vars == <<pc, html, pos, html_, index_ch_in_html_, offset_lt_, is_in_tag_,
          is_closing_tag_, is_in_attribute_value_, prev_ch_in_md_,
          prev_prev_ch_in_md_, prev_ch_in_html_, current_tag_, prev_tag_,
          current_href_, chars_in_curr_line_, char_index_in_tag_content,
          md_, md_len_, dom_tags_, tidied, out, oob, tag_at, elems, prior>>

-----------------------------------------------------------------------------
(* Characters *)

NL == "\n"
SP == " "
TAB == "\t"
LT == "<"
GT == ">"
DQ == "\""
SQ == "'"
\* the backtick, byte 0x60
BT == "x60"
\* the vertical tab, byte 0x0B
VT == "x0B"
\* the zero byte, which ends a C string; it is none of the characters the code
\* compares with
NUL == "x00"
\* the value of a char that was never written, or was read from outside the
\* buffer, before anything has looked at it
Indet == "INDET"
\* what such a char can turn out to be: each character the code compares
\* prev_ch_in_md_ / prev_prev_ch_in_md_ with, and one that is none of them
AnyChar == {NL, SP, "*", "[", "=", NUL}
Obs(c) == IF c = Indet THEN AnyChar ELSE {c}
\* prev_prev_ch_in_md_ is compared with '\n' and '*' only
AnyPrevPrev == {NL, "*", NUL}
ObsPrevPrev(c) == IF c = Indet THEN AnyPrevPrev ELSE {c}

\* u_int16_t
CounterMod == 65536
\* the column after which a blank wraps the line
kWrapAt == 80

\* std::isspace / std::isblank in the "C" locale
IsSpace(c) == c \in {SP, TAB, NL, VT, "\f", "\r"}
IsBlank(c) == c \in {SP, TAB}

-----------------------------------------------------------------------------
(* std::string operations *)

SetMin(S) == CHOOSE i \in S : \A j \in S : i <= j

Last(s) == s[Len(s)]

\* s.substr(from - 1): the characters of s from position from (1-based) on
Drop(s, from) == SubSeq(s, from, Len(s))

OccursAt(h, n, i) ==
  /\ i >= 1
  /\ i + Len(n) - 1 <= Len(h)
  /\ \A k \in 1..Len(n) : h[i + k - 1] = n[k]

\* h.find(n, from - 1) + 1, and 0 for npos
Find(h, n, from) ==
  LET C == {i \in from..(Len(h) - Len(n) + 1) : OccursAt(h, n, i)}
  IN  IF C = {} THEN 0 ELSE SetMin(C)

RECURSIVE Flatten(_)
Flatten(ss) == IF ss = <<>> THEN <<>> ELSE Head(ss) \o Flatten(Tail(ss))

RECURSIVE ReplaceFrom(_, _, _, _)
ReplaceFrom(haystack, needle, replacement, from) ==
  LET p == Find(haystack, needle, from)
  IN  IF p = 0 THEN haystack
      ELSE ReplaceFrom(SubSeq(haystack, 1, p - 1) \o replacement
                         \o Drop(haystack, p + Len(needle)),
                       needle, replacement, p + Len(replacement))

ReplaceAll(haystack, needle, replacement) ==
  ReplaceFrom(haystack, needle, replacement, 1)

\* std::getline in a loop: the pieces between delimiters, without a last
\* empty piece (so the empty string has no piece at all)
RECURSIVE Explode(_, _)
Explode(str, delimiter) ==
  IF str = <<>> THEN <<>>
  ELSE LET p == Find(str, <<delimiter>>, 1)
       IN  IF p = 0 THEN <<str>>
           ELSE <<SubSeq(str, 1, p - 1)>> \o Explode(Drop(str, p + 1), delimiter)

RECURSIVE Repeat(_, _)
Repeat(str, amount) == IF amount = 0 THEN <<>> ELSE str \o Repeat(str, amount - 1)

RECURSIVE LTrim(_)
LTrim(s) == IF s # <<>> /\ IsSpace(Head(s)) THEN LTrim(Tail(s)) ELSE s

RECURSIVE RTrim(_, _)
RTrim(s, trim_only_blank) ==
  IF s # <<>> /\ (IF trim_only_blank THEN IsBlank(Last(s)) ELSE IsSpace(Last(s)))
  THEN RTrim(SubSeq(s, 1, Len(s) - 1), trim_only_blank)
  ELSE s

Trim(s) == RTrim(LTrim(s), FALSE)

-----------------------------------------------------------------------------
(* CleanUpMarkdown *)

\* (mutation of KeepsEmptyLine: one more empty line gets through)
KeepsEmptyLineLax(amount_newlines) == amount_newlines < 3

\* the test that lets one more empty line through
KeepsEmptyLine(amount_newlines) == amount_newlines < 2

RECURSIVE TidyLines(_, _, _)
TidyLines(lines, res, amount_newlines) ==
  IF lines = <<>> THEN res
  ELSE LET line == Trim(Head(lines))
       IN  IF line = <<>>
           THEN IF KeepsEmptyLine(amount_newlines)
                THEN TidyLines(Tail(lines), res \o <<NL>>, amount_newlines + 1)
                ELSE TidyLines(Tail(lines), res, amount_newlines)
           ELSE TidyLines(Tail(lines), res \o line \o <<NL>>, 0)

\* res.substr(0, res.length() - 1); for an empty res the length wraps and the
\* result is the empty string too
TidyAllLines(str) ==
  LET res == TidyLines(Explode(str, NL), <<>>, 0)
  IN  SubSeq(res, 1, Len(res) - 1)

\* U+21B5 and U+2192 in UTF-8
kReturnSign == <<"xE2", "x86", "xB5">>
kRightArrow == <<"xE2", "x86", "x92">>

Repairs(md) ==
  LET r1 == ReplaceAll(md, <<SP, ",", SP>>, <<",", SP>>)
      r2 == ReplaceAll(r1, <<NL, ".", NL>>, <<".", NL>>)
      r3 == ReplaceAll(r2, <<NL>> \o kReturnSign \o <<NL>>,
                           <<SP>> \o kReturnSign \o <<NL>>)
      r4 == ReplaceAll(r3, <<NL, "*", NL>>, <<NL>>)
      r5 == ReplaceAll(r4, <<NL, ".", SP>>, <<".", NL>>)
      r6 == ReplaceAll(r5, <<SP, "[", SP>>, <<SP, "[">>)
  IN  ReplaceAll(r6, <<NL, "[", SP>>, <<NL, "[">>)

CleanUpMarkdownOf(md) == Repairs(TidyAllLines(md))

-----------------------------------------------------------------------------
(* PrepareHtml *)

IsLineTerminator(c) == c \in {NL, "\r"}

kCommentOpen == <<"<", "!", "-", "-">>
kCommentClose == <<"-", "-", ">">>

\* the end (position of its last character) of the shortest match of
\* <!--(.*?)--> that starts at p, or 0: '.' matches no line terminator
CommentEnd(h, p) ==
  LET Q == {q \in (p + 4)..(Len(h) - 2) :
              /\ OccursAt(h, kCommentClose, q)
              /\ \A k \in (p + 4)..(q - 1) : ~IsLineTerminator(h[k])}
  IN  IF OccursAt(h, kCommentOpen, p) /\ Q # {} THEN SetMin(Q) + 2 ELSE 0

\* regex_replace(*html, exp, ""): every match, leftmost first, is dropped
RECURSIVE StripComments(_)
StripComments(h) ==
  LET P == {p \in 1..Len(h) : CommentEnd(h, p) # 0}
  IN  IF P = {} THEN h
      ELSE LET p == SetMin(P)
           IN  SubSeq(h, 1, p - 1) \o StripComments(Drop(h, CommentEnd(h, p) + 1))

PrepareHtmlOf(h) ==
  LET h1 == ReplaceAll(h, <<TAB>>, <<SP>>)
      h2 == ReplaceAll(h1, <<"&", "a", "m", "p", ";">>, <<"&">>)
      h3 == ReplaceAll(h2, <<"&", "n", "b", "s", "p", ";">>, <<SP>>)
      h4 == ReplaceAll(h3, <<"&", "r", "a", "r", "r", ";">>, kRightArrow)
  IN  StripComments(h4)

-----------------------------------------------------------------------------
(* Tag names *)

kAttributeHref == <<"h", "r", "e", "f">>

kTagAnchor == <<"a">>
kTagBold == <<"b">>
kTagBreak == <<"b", "r">>
kTagDiv == <<"d", "i", "v">>
kTagHead == <<"h", "e", "a", "d">>
kTagHeader1 == <<"h", "1">>
kTagHeader2 == <<"h", "2">>
kTagHeader3 == <<"h", "3">>
kTagHeader4 == <<"h", "4">>
kTagLink == <<"l", "i", "n", "k">>
kTagListItem == <<"l", "i">>
kTagMeta == <<"m", "e", "t", "a">>
kTagNav == <<"n", "a", "v">>
kTagNoScript == <<"n", "o", "s", "c", "r", "i", "p", "t">>
kTagOption == <<"o", "p", "t", "i", "o", "n">>
kTagOrderedList == <<"o", "l">>
kTagParagraph == <<"p">>
kTagPre == <<"p", "r", "e">>
kTagScript == <<"s", "c", "r", "i", "p", "t">>
kTagSpan == <<"s", "p", "a", "n">>
kTagStrong == <<"s", "t", "r", "o", "n", "g">>
kTagStyle == <<"s", "t", "y", "l", "e">>
kTagTemplate == <<"t", "e", "m", "p", "l", "a", "t", "e">>
kTagTitle == <<"t", "i", "t", "l", "e">>
kTagUnorderedList == <<"u", "l">>

\* the names the constructor enters into tags_ with TagIgnored
TagIgnoredNames ==
  {kTagHead, kTagMeta, kTagNav, kTagNoScript, kTagScript, kTagStyle, kTagTemplate}

\* the names the constructor enters into tags_: tags_[name] != nullptr
tags_ ==
  TagIgnoredNames \cup
  {kTagAnchor, kTagBreak, kTagDiv, kTagHeader1, kTagHeader2, kTagHeader3,
   kTagHeader4, kTagListItem, kTagOption, kTagOrderedList, kTagPre,
   kTagParagraph, kTagSpan, kTagTitle, kTagUnorderedList, kTagBold, kTagStrong}

-----------------------------------------------------------------------------
(* The ancestor stack *)

\* (mutation of IsIgnoredTag: script is missing from the list)
IsIgnoredTagNoScript(tag) ==
  tag \in {kTagTemplate, kTagStyle, kTagNoScript, kTagNav}

IsIgnoredTag(tag) ==
  tag \in {kTagTemplate, kTagStyle, kTagScript, kTagNoScript, kTagNav}

\* the entry the loop over dom_tags_ stops at
FirstDeciding(dom) ==
  LET D == {i \in 1..Len(dom) :
              dom[i] = kTagPre \/ dom[i] = kTagTitle \/ IsIgnoredTag(dom[i])}
  IN  IF D = {} THEN 0 ELSE SetMin(D)

\* (mutation of IsInIgnoredTagOf: any ignored entry decides)
IsInIgnoredTagOfAny(dom) == \E i \in 1..Len(dom) : IsIgnoredTag(dom[i])

IsInIgnoredTagOf(dom) ==
  LET i == FirstDeciding(dom)
  IN  IF i = 0 THEN FALSE
      ELSE IF dom[i] = kTagPre \/ dom[i] = kTagTitle THEN FALSE
      ELSE TRUE

-----------------------------------------------------------------------------
(* The output buffer.  The operations below act on the fields a tag handler *)
(* can touch, held in a record: md (md_), n (chars_in_curr_line_),          *)
(* p (prev_ch_in_md_), pp (prev_prev_ch_in_md_), href (current_href_),      *)
(* len (md_len_).  ign is IsInIgnoredTag() at the time of the call.         *)

RECURSIVE CountLine(_, _)
CountLine(n, str) ==
  IF str = <<>> THEN n
  ELSE CountLine(IF Head(str) = NL THEN 0 ELSE (n + 1) % CounterMod, Tail(str))

AppendToMd(c, str, ign) ==
  IF ign THEN c
  ELSE [c EXCEPT !.md = @ \o str, !.n = CountLine(@, str)]

UpdatePrevChFromMd(c) ==
  IF c.md = <<>> THEN c
  ELSE [c EXCEPT !.p = Last(c.md),
                 !.pp = IF Len(c.md) > 1 THEN c.md[Len(c.md) - 1] ELSE @]

AppendBlank(c, ign) ==
  LET u == UpdatePrevChFromMd(c)
  IN  IF u.p = NL \/ (u.p = "*" /\ u.pp = "*") THEN u
      ELSE AppendToMd(u, <<SP>>, ign)

\* (mutation of ShortenMarkdown: an empty buffer gets the blank back that
\* the caller saw in prev_ch_in_md_)
ShortenMarkdownRefills(c, chars) ==
  LET l == Len(c.md)
      cut == IF chars > l THEN <<SP>> ELSE SubSeq(c.md, 1, l - chars)
  IN  UpdatePrevChFromMd([c EXCEPT !.md = cut, !.len = l])

\* md_.substr(0, md_len_ - chars) in size_t: when chars exceeds the length
\* the difference wraps and substr keeps the whole string
ShortenMarkdown(c, chars) ==
  LET l == Len(c.md)
      cut == IF chars > l THEN c.md ELSE SubSeq(c.md, 1, l - chars)
  IN  UpdatePrevChFromMd([c EXCEPT !.md = cut, !.len = l])

\* (mutation of TurnLineIntoHeader1: the underline is one sign long)
TurnLineIntoHeader1Long(c) ==
  [c EXCEPT !.md = @ \o <<NL>> \o Repeat(<<"=">>, c.n + 1) \o <<NL, NL>>, !.n = 0]

TurnLineIntoHeader1(c) ==
  [c EXCEPT !.md = @ \o <<NL>> \o Repeat(<<"=">>, c.n) \o <<NL, NL>>, !.n = 0]

\* (mutation of TurnLineIntoHeader2: the underline is one sign longer)
TurnLineIntoHeader2Long(c) ==
  [c EXCEPT !.md = @ \o <<NL>> \o Repeat(<<"-">>, c.n + 1) \o <<NL, NL>>, !.n = 0]

TurnLineIntoHeader2(c) ==
  [c EXCEPT !.md = @ \o <<NL>> \o Repeat(<<"-">>, c.n) \o <<NL, NL>>, !.n = 0]

-----------------------------------------------------------------------------
(* ExtractAttributeFromTagLeftOf *)

\* html_.substr(offset_lt_, index_ch_in_html_ - offset_lt_); a negative
\* length converts to a huge size_t and substr runs to the end
TagSlice(h, offset, index) ==
  LET n == index - offset
      last == IF n < 0 \/ offset + n > Len(h) THEN Len(h) ELSE offset + n
  IN  SubSeq(h, offset + 1, last)

\* (mutation of ExtractAttribute: a double quote wraps the value whenever
\* the tag has one, also behind a single quote)
ExtractAttributeDoubleFirst(tag, attr) ==
  LET offset_attr == Find(tag, attr, 1)
      offset_equals == Find(tag, <<"=">>, offset_attr)
      offset_double_quote == Find(tag, <<DQ>>, offset_equals)
      offset_single_quote == Find(tag, <<SQ>>, offset_equals)
      has_double_quote == offset_double_quote # 0
      has_single_quote == offset_single_quote # 0
      wrapping_quote == IF has_double_quote THEN DQ ELSE SQ
      offset_opening_quote ==
        IF has_double_quote THEN offset_double_quote ELSE offset_single_quote
      offset_closing_quote == Find(tag, <<wrapping_quote>>, offset_opening_quote + 1)
  IN  IF offset_attr = 0 THEN <<>>
      ELSE IF offset_equals = 0 THEN <<>>
      ELSE IF ~has_double_quote /\ ~has_single_quote THEN <<>>
      ELSE IF offset_closing_quote = 0 THEN <<>>
      ELSE SubSeq(tag, offset_opening_quote + 1, offset_closing_quote - 1)

ExtractAttribute(tag, attr) ==
  LET offset_attr == Find(tag, attr, 1)
      offset_equals == Find(tag, <<"=">>, offset_attr)
      offset_double_quote == Find(tag, <<DQ>>, offset_equals)
      offset_single_quote == Find(tag, <<SQ>>, offset_equals)
      has_double_quote == offset_double_quote # 0
      has_single_quote == offset_single_quote # 0
      double_first == has_double_quote /\
                      (~has_single_quote \/ offset_double_quote < offset_single_quote)
      wrapping_quote == IF double_first THEN DQ ELSE SQ
      offset_opening_quote ==
        IF double_first THEN offset_double_quote ELSE offset_single_quote
      offset_closing_quote == Find(tag, <<wrapping_quote>>, offset_opening_quote + 1)
  IN  IF offset_attr = 0 THEN <<>>
      ELSE IF offset_equals = 0 THEN <<>>
      ELSE IF ~has_double_quote /\ ~has_single_quote THEN <<>>
      ELSE IF offset_closing_quote = 0 THEN <<>>
      ELSE SubSeq(tag, offset_opening_quote + 1, offset_closing_quote - 1)

-----------------------------------------------------------------------------
(* Tag handlers *)

\* TagDiv, TagOrderedList, TagUnorderedList and the start of TagPre
EnsureBlankLine(c, ign) ==
  LET c1 == IF c.p # NL THEN AppendToMd(c, <<NL>>, ign) ELSE c
  IN  IF c1.pp # NL THEN AppendToMd(c1, <<NL>>, ign) ELSE c1

\* std::string::c_str() as strlen and operator+=(const char*) read it: the
\* characters before the first zero byte
CStr(str) ==
  LET Z == {i \in 1..Len(str) : str[i] = NUL}
  IN  IF Z = {} THEN str ELSE SubSeq(str, 1, SetMin(Z) - 1)

TagAnchorOpen(c, ign, tag) ==
  IF ign THEN c
  ELSE LET c1 == [c EXCEPT !.md = RTrim(@, TRUE)]
           c2 == AppendToMd(AppendBlank(c1, ign), <<"[">>, ign)
       IN  [c2 EXCEPT !.href = ExtractAttribute(tag, kAttributeHref)]

\* (mutation of TagAnchorClose: the link is closed also behind the bracket)
TagAnchorCloseKeepsBracket(c, ign) ==
  IF ign THEN c
  ELSE LET c1 == IF c.p = SP THEN ShortenMarkdown(c, 1) ELSE c
       IN  AppendToMd(AppendToMd(AppendToMd(c1, <<"]", "(">>, ign), CStr(c1.href), ign),
                      <<")", SP>>, ign)

TagAnchorClose(c, ign) ==
  IF ign THEN c
  ELSE LET c1 == IF c.p = SP THEN ShortenMarkdown(c, 1) ELSE c
       IN  IF c1.p = "[" THEN ShortenMarkdown(c1, 1)
           ELSE AppendToMd(AppendToMd(AppendToMd(c1, <<"]", "(">>, ign),
                                      CStr(c1.href), ign),
                           <<")", SP>>, ign)

TagBoldOpen(c, ign) ==
  AppendToMd(IF c.p # SP THEN AppendToMd(c, <<SP>>, ign) ELSE c, <<"*", "*">>, ign)

TagBoldClose(c, ign) ==
  AppendToMd(IF c.p = SP THEN ShortenMarkdown(c, 1) ELSE c, <<"*", "*">>, ign)

\* TagBreak, TagListItem and TagOption on their closing tag
HardBreak(c, ign) ==
  IF c.len > 0 THEN AppendToMd(c, <<SP, SP, NL>>, ign) ELSE c

TagListItemOpen(c, ign) ==
  AppendToMd(IF c.p # NL THEN AppendToMd(c, <<NL>>, ign) ELSE c, <<"*", SP>>, ign)

\* (mutation of TagParagraphClose: the line is ended, no empty line follows)
TagParagraphCloseNoEmptyLine(c, ign) ==
  IF c.md # <<>> THEN AppendToMd(c, <<SP, SP, NL>>, ign) ELSE c

TagParagraphClose(c, ign) ==
  IF c.md # <<>> THEN AppendToMd(c, <<SP, SP, NL, NL>>, ign) ELSE c

\* four backticks
kFence == <<BT, BT, BT, BT>>

TagPreOpen(c, ign) ==
  AppendToMd(EnsureBlankLine(c, ign), kFence \o <<NL>>, ign)

TagPreClose(c, ign) ==
  AppendToMd(c, <<NL>> \o kFence \o <<NL, NL>>, ign)

TagSpanClose(c, ign, char_index) ==
  IF c.p # SP /\ char_index > 0 THEN AppendToMd(c, <<SP>>, ign) ELSE c

TagHeaderOpen(c, ign, hashes) ==
  AppendToMd(c, <<NL, NL, NL>> \o hashes \o <<SP>>, ign)

\* tags_[name]->OnHasLeftOpeningTag(this); tag is the slice of html_ the
\* anchor reads its href from
OnHasLeftOpeningTag(name, c, ign, tag) ==
  CASE name = kTagAnchor -> TagAnchorOpen(c, ign, tag)
    [] name \in {kTagBold, kTagStrong} -> TagBoldOpen(c, ign)
    [] name \in {kTagDiv, kTagOrderedList, kTagUnorderedList} -> EnsureBlankLine(c, ign)
    [] name = kTagHeader2 -> TagHeaderOpen(c, ign, <<"#", "#", "#">>)
    [] name = kTagHeader3 -> TagHeaderOpen(c, ign, <<"#", "#", "#", "#">>)
    [] name = kTagHeader4 -> TagHeaderOpen(c, ign, <<"#", "#", "#", "#", "#">>)
    [] name = kTagListItem -> TagListItemOpen(c, ign)
    [] name = kTagPre -> TagPreOpen(c, ign)
    [] OTHER -> c

\* tags_[name]->OnHasLeftClosingTag(this); char_index is
\* char_index_in_tag_content
OnHasLeftClosingTag(name, c, ign, char_index) ==
  CASE name = kTagAnchor -> TagAnchorClose(c, ign)
    [] name \in {kTagBold, kTagStrong} -> TagBoldClose(c, ign)
    [] name \in {kTagBreak, kTagListItem, kTagOption} -> HardBreak(c, ign)
    [] name = kTagHeader1 -> IF c.len > 0 THEN TurnLineIntoHeader2(c) ELSE c
    [] name \in {kTagHeader2, kTagHeader3, kTagHeader4} -> AppendToMd(c, <<NL, NL>>, ign)
    [] name = kTagParagraph -> TagParagraphClose(c, ign)
    [] name = kTagPre -> TagPreClose(c, ign)
    [] name = kTagSpan -> TagSpanClose(c, ign, char_index)
    [] name = kTagTitle -> TurnLineIntoHeader1(c)
    [] OTHER -> c

\* the handlers that compare prev_ch_in_md_ / prev_prev_ch_in_md_
ReadsPrevCh(name) ==
  name \in {kTagAnchor, kTagBold, kTagStrong, kTagDiv, kTagOrderedList,
            kTagUnorderedList, kTagListItem, kTagPre, kTagSpan}
ReadsPrevPrevCh(name) ==
  name \in {kTagAnchor, kTagDiv, kTagOrderedList, kTagUnorderedList, kTagPre}

-----------------------------------------------------------------------------
(* History: the elements of the document.  An opening tag opens an element  *)
(* unless its name is one HTML gives no closing tag; a closing tag closes   *)
(* the innermost open element of its name, and the elements inside it.      *)

VoidNames == {kTagBreak, kTagMeta, kTagLink}

ElemsAfter(es, name, closing) ==
  IF closing
  THEN LET I == {i \in 1..Len(es) : es[i] = name}
       IN  IF I = {} THEN es ELSE SubSeq(es, 1, (CHOOSE i \in I : \A j \in I : j <= i) - 1)
  ELSE IF name \in VoidNames THEN es ELSE Append(es, name)

\* the tag that began at position at of h is written as a closing tag
WrittenAsClosing(h, at) == at + 1 <= Len(h) /\ h[at + 1] = "/"

-----------------------------------------------------------------------------
(* Converter::Convert *)

\* the fields after "new Converter(html)".  offset_lt_ and md_len_ have no
\* initialiser; both are written (OnHasEnteredTag, UpdateMdLen) before any
\* read, so their first value is never seen.  prev_ch_in_md_ and
\* prev_prev_ch_in_md_ have none either and can be read first.
Start(d) ==
  /\ pc = "prepare"
  /\ html = d
  /\ html_ = d
  /\ pos = 1
  /\ index_ch_in_html_ = 0
  /\ offset_lt_ = 0
  /\ is_in_tag_ = FALSE
  /\ is_closing_tag_ = FALSE
  /\ is_in_attribute_value_ = FALSE
  /\ prev_ch_in_md_ = Indet
  /\ prev_prev_ch_in_md_ = Indet
  /\ prev_ch_in_html_ = "x"
  /\ current_tag_ = <<>>
  /\ prev_tag_ = <<>>
  /\ current_href_ = <<>>
  /\ chars_in_curr_line_ = 0
  /\ char_index_in_tag_content = 0
  /\ md_ = <<>>
  /\ md_len_ = 0
  /\ dom_tags_ = <<>>
  /\ tidied = <<>>
  /\ out = <<>>
  /\ oob = FALSE
  /\ tag_at = 0
  /\ elems = <<>>
  /\ prior = <<>>

PrepareHtml ==
  /\ pc = "prepare"
  /\ html' = PrepareHtmlOf(html)
  /\ pc' = "scan"
  /\ UNCHANGED <<prior, pos, html_, index_ch_in_html_, offset_lt_, is_in_tag_,
                 is_closing_tag_, is_in_attribute_value_, prev_ch_in_md_,
                 prev_prev_ch_in_md_, prev_ch_in_html_, current_tag_, prev_tag_,
                 current_href_, chars_in_curr_line_, char_index_in_tag_content,
                 md_, md_len_, dom_tags_, tidied, out, oob, tag_at, elems>>

Scanning == pc = "scan" /\ pos <= Len(html)

\* (mutation of SeparatedFromText: a blank follows whatever the buffer ends in)
SeparatedFromTextAlways(md) ==
  IF md # <<>> THEN Append(md, SP) ELSE md

\* the buffer after OnHasEnteredTag: md_ += ' ' unless md_ is empty or ends
\* in a blank or a newline
SeparatedFromText(md) ==
  IF md # <<>> /\ Last(md) # SP /\ Last(md) # NL THEN Append(md, SP) ELSE md

\* Convert2Md with ch == '<' outside a tag
OnHasEnteredTag ==
  /\ Scanning
  /\ ~is_in_tag_
  /\ html[pos] = LT
  /\ offset_lt_' = index_ch_in_html_
  /\ is_in_tag_' = TRUE
  /\ prev_tag_' = current_tag_
  /\ current_tag_' = <<>>
  /\ prev_ch_in_md_' = IF md_ # <<>> THEN Last(md_) ELSE prev_ch_in_md_
  /\ md_' = SeparatedFromText(md_)
  /\ pos' = pos + 1
  /\ tag_at' = pos
  /\ UNCHANGED <<prior, pc, html, html_, index_ch_in_html_, is_closing_tag_,
                 is_in_attribute_value_, prev_prev_ch_in_md_, prev_ch_in_html_,
                 current_href_, chars_in_curr_line_, char_index_in_tag_content,
                 md_len_, dom_tags_, tidied, out, oob, elems>>

\* ParseCharInTag returns false, and Convert2Md counts the character
CountedInTag(ch, tag) ==
  /\ ~(ch = "/" /\ tag = <<>>)
  /\ ch # "="
  /\ ch # DQ

\* Convert2Md inside a tag with ch != '>'
ParseCharInTag ==
  /\ Scanning
  /\ is_in_tag_
  /\ html[pos] # GT
  /\ LET ch == html[pos]
         slash == ch = "/" /\ current_tag_ = <<>>
         reads == ~slash /\ ch = DQ /\ ~is_in_attribute_value_
     IN  \E p \in (IF reads THEN Obs(prev_ch_in_md_) ELSE {prev_ch_in_md_}) :
           /\ prev_ch_in_md_' = p
           /\ is_closing_tag_' = (is_closing_tag_ \/ slash)
           /\ is_in_attribute_value_' =
                IF ~slash /\ ch = DQ
                THEN (IF is_in_attribute_value_ THEN FALSE ELSE p = "=")
                ELSE is_in_attribute_value_
           /\ current_tag_' = IF CountedInTag(ch, current_tag_)
                              THEN Append(current_tag_, ch) ELSE current_tag_
           /\ index_ch_in_html_' = IF CountedInTag(ch, current_tag_)
                                   THEN (index_ch_in_html_ + 1) % CounterMod
                                   ELSE index_ch_in_html_
  /\ md_len_' = Len(md_)
  /\ pos' = pos + 1
  /\ UNCHANGED <<prior, pc, html, html_, offset_lt_, is_in_tag_, prev_prev_ch_in_md_,
                 prev_ch_in_html_, prev_tag_, current_href_, chars_in_curr_line_,
                 char_index_in_tag_content, md_, dom_tags_, tidied, out, oob,
                 tag_at, elems>>

\* Dispatch with a closing tag on an empty stack leaving its name there
DispatchStrayStays(name, c, dom, closing, tag, char_index) ==
  IF name \notin tags_
  THEN [c |-> c, dom |-> dom, closing |-> closing]
  ELSE IF closing
  THEN [c |-> OnHasLeftClosingTag(name, c, IsInIgnoredTagOf(dom), char_index),
        dom |-> IF dom # <<>> THEN SubSeq(dom, 1, Len(dom) - 1) ELSE <<name>>,
        closing |-> FALSE]
  ELSE [c |-> OnHasLeftOpeningTag(name, c, IsInIgnoredTagOf(Append(dom, name)), tag),
        dom |-> Append(dom, name),
        closing |-> FALSE]

\* what OnHasLeftTag does from "Tag* tag = tags_[current_tag_]" on, for the
\* tag name and the handler fields c: the fields, the stack and the flag
Dispatch(name, c, dom, closing, tag, char_index) ==
  IF name \notin tags_
  THEN [c |-> c, dom |-> dom, closing |-> closing]
  ELSE IF closing
  THEN [c |-> OnHasLeftClosingTag(name, c, IsInIgnoredTagOf(dom), char_index),
        dom |-> IF dom # <<>> THEN SubSeq(dom, 1, Len(dom) - 1) ELSE dom,
        closing |-> FALSE]
  ELSE [c |-> OnHasLeftOpeningTag(name, c, IsInIgnoredTagOf(Append(dom, name)), tag),
        dom |-> Append(dom, name),
        closing |-> FALSE]

\* Convert2Md inside a tag with ch == '>'.  Explode of an empty current_tag_
\* has no element 0: the read through the empty vector ends the process.
\* md_[md_len_ - 1] of an empty md_ is a read outside the buffer.
OnHasLeftTag ==
  /\ Scanning
  /\ is_in_tag_
  /\ html[pos] = GT
  /\ is_in_tag_' = FALSE
  /\ IF current_tag_ = <<>>
     THEN /\ pc' = "crashed"
          /\ oob' = TRUE
          /\ md_len_' = Len(md_)
          /\ UNCHANGED <<pos, index_ch_in_html_, is_closing_tag_, prev_ch_in_md_,
                         prev_prev_ch_in_md_, current_tag_, current_href_,
                         chars_in_curr_line_, char_index_in_tag_content, md_,
                         dom_tags_, elems>>
     ELSE LET name == Explode(current_tag_, SP)[1]
              last == IF md_ = <<>> THEN Indet ELSE Last(md_)
          IN  \E p \in (IF ReadsPrevCh(name) THEN Obs(last) ELSE {last}),
                 pp \in (IF ReadsPrevPrevCh(name) THEN ObsPrevPrev(prev_prev_ch_in_md_)
                         ELSE {prev_prev_ch_in_md_}) :
                LET c == [md |-> md_, n |-> chars_in_curr_line_, p |-> p, pp |-> pp,
                          href |-> current_href_, len |-> Len(md_)]
                    r == Dispatch(name, c, dom_tags_, is_closing_tag_,
                                  TagSlice(html_, offset_lt_, index_ch_in_html_), 0)
                IN  /\ current_tag_' = name
                    /\ md_' = r.c.md
                    /\ chars_in_curr_line_' = r.c.n
                    /\ prev_ch_in_md_' = r.c.p
                    /\ prev_prev_ch_in_md_' = r.c.pp
                    /\ current_href_' = r.c.href
                    /\ md_len_' = r.c.len
                    /\ dom_tags_' = r.dom
                    /\ is_closing_tag_' = r.closing
                    /\ oob' = (oob \/ md_ = <<>>)
                    /\ elems' = ElemsAfter(elems, name, WrittenAsClosing(html, tag_at))
                    /\ char_index_in_tag_content' = 0
                    /\ pos' = pos + 1
                    /\ UNCHANGED <<pc, index_ch_in_html_>>
  /\ UNCHANGED <<prior, html, html_, offset_lt_, is_in_attribute_value_, prev_ch_in_html_,
                 prev_tag_, tidied, out, tag_at>>

\* (mutation of SkippedContent: a newline is content like any other character)
SkippedContentButNewline(ch, dom, tag) ==
  IsInIgnoredTagOf(dom) \/ tag = kTagLink

\* ParseCharInTagContent returns true before it looks at the buffer
SkippedContent(ch, dom, tag) ==
  ch = NL \/ IsInIgnoredTagOf(dom) \/ tag = kTagLink

\* ParseCharInTagContent returns true for a blank it drops
DroppedBlank(ch, len, char_index, p) ==
  ch = SP /\ (len = 0 \/ char_index = 0 \/ p = SP \/ p = NL)

\* (mutation of WrapsLine: the counter is compared before the blank is counted)
WrapsLineLate(n, ch) == n - 1 > kWrapAt /\ ch = SP

\* the blank after which the line is wrapped
WrapsLine(n, ch) == n > kWrapAt /\ ch = SP

\* ParseCharInTagContent from "if (ch == '.' ..." on: c with ch appended
AppendContent(c, ch) ==
  LET c1 == IF ch = "." /\ c.p = SP
            THEN [ShortenMarkdown(c, 1) EXCEPT !.n = (@ - 1) % CounterMod]
            ELSE c
      c2 == [c1 EXCEPT !.md = Append(@, ch), !.n = (@ + 1) % CounterMod]
  IN  IF WrapsLine(c2.n, ch) THEN [c2 EXCEPT !.md = Append(@, NL), !.n = 0] ELSE c2

\* Convert2Md outside a tag with ch != '<'
ParseCharInTagContent ==
  /\ Scanning
  /\ ~is_in_tag_
  /\ html[pos] # LT
  /\ LET ch == html[pos]
         len == Len(md_)
         p == IF len > 0 THEN md_[len] ELSE "."
         pp == IF len > 1 THEN md_[len - 1] ELSE "."
         c == [md |-> md_, n |-> chars_in_curr_line_, p |-> p, pp |-> pp,
               href |-> current_href_, len |-> len]
         r == AppendContent(c, ch)
     IN  IF SkippedContent(ch, dom_tags_, current_tag_)
         THEN /\ prev_ch_in_html_' = IF ch = NL THEN prev_ch_in_html_ ELSE ch
              /\ UNCHANGED <<prev_ch_in_md_, prev_prev_ch_in_md_, md_,
                             chars_in_curr_line_, char_index_in_tag_content,
                             index_ch_in_html_>>
         ELSE IF DroppedBlank(ch, len, char_index_in_tag_content, p)
         THEN /\ prev_ch_in_md_' = p
              /\ prev_prev_ch_in_md_' = pp
              /\ UNCHANGED <<prev_ch_in_html_, md_, chars_in_curr_line_,
                             char_index_in_tag_content, index_ch_in_html_>>
         ELSE /\ md_' = r.md
              /\ chars_in_curr_line_' = r.n
              /\ prev_ch_in_md_' = r.p
              /\ prev_prev_ch_in_md_' = r.pp
              /\ char_index_in_tag_content' = (char_index_in_tag_content + 1) % CounterMod
              /\ index_ch_in_html_' = (index_ch_in_html_ + 1) % CounterMod
              /\ UNCHANGED prev_ch_in_html_
  /\ md_len_' = Len(md_)
  /\ pos' = pos + 1
  /\ UNCHANGED <<prior, pc, html, html_, offset_lt_, is_in_tag_, is_closing_tag_,
                 is_in_attribute_value_, current_tag_, prev_tag_, current_href_,
                 dom_tags_, tidied, out, oob, tag_at, elems>>

\* the end of Convert: GetMd_, CleanUpMarkdown on the copy, return
CleanUpMarkdown ==
  /\ pc = "scan"
  /\ pos > Len(html)
  /\ tidied' = TidyAllLines(md_)
  /\ out' = Repairs(TidyAllLines(md_))
  /\ pc' = "done"
  /\ UNCHANGED <<prior, html, pos, html_, index_ch_in_html_, offset_lt_, is_in_tag_,
                 is_closing_tag_, is_in_attribute_value_, prev_ch_in_md_,
                 prev_prev_ch_in_md_, prev_ch_in_html_, current_tag_, prev_tag_,
                 current_href_, chars_in_curr_line_, char_index_in_tag_content,
                 md_, md_len_, dom_tags_, oob, tag_at, elems>>

Next ==
  \/ PrepareHtml
  \/ OnHasEnteredTag
  \/ ParseCharInTag
  \/ OnHasLeftTag
  \/ ParseCharInTagContent
  \/ CleanUpMarkdown

-----------------------------------------------------------------------------
(* Documents *)

Tag(name) == <<LT>> \o name \o <<GT>>
EndTag(name) == <<LT, "/">> \o name \o <<GT>>

\* the sequences of at most k members of S
SeqsUpTo(S, k) == UNION {[1..n -> S] : n \in 0..k}

\* the documents made of at most k of the pieces P
Composed(P, k) == {Flatten(ps) : ps \in SeqsUpTo(P, k)}

Contains(s, t) == Find(s, t, 1) # 0

\* s has a run of k newlines
HasNewlineRun(s, k) == Contains(s, Repeat(<<NL>>, k))

-----------------------------------------------------------------------------
(* Malformed input: every string of at most MaxChars characters *)

MaxChars == 4

MalformedChars == {LT, GT, "/", "b", DQ, "x"}

MalformedDocs == SeqsUpTo(MalformedChars, MaxChars)

SpecMalformed == (\E d \in MalformedDocs : Start(d)) /\ [][Next]_vars

\* C4: Convert never fails: no step of the scanner evaluates an index that is
\* out of range (into the vector Explode returns, or into md_), and no step
\* ends the process.
C4_NeverOutOfRange == ~oob /\ pc # "crashed"

-----------------------------------------------------------------------------
(* Anchors: pre <a href=qUq>T</a> post *)

MaxUrl == 2

kScenarioUrl == <<"h", "t", "t", "p", ":", "/", "/", "x", ".", "t", "e", "s", "t">>
kScenarioText == <<"L", "i", "n", "k">>

AnchorPres == {<<>>, <<"x">>, Tag(kTagParagraph)}
AnchorQuotes == {DQ, SQ}
AnchorUrls == (SeqsUpTo({"u", "/"}, MaxUrl) \ {<<>>}) \cup {kScenarioUrl}
AnchorTexts == {<<"L">>, kScenarioText}
AnchorPosts == {<<>>, <<"y">>}

AnchorDoc(pre, q, u, t, post) ==
  pre \o <<LT, "a", SP>> \o kAttributeHref \o <<"=", q>> \o u \o <<q, GT>>
      \o t \o EndTag(kTagAnchor) \o post

AnchorDocs ==
  {AnchorDoc(pre, q, u, t, post) :
     pre \in AnchorPres, q \in AnchorQuotes, u \in AnchorUrls,
     t \in AnchorTexts, post \in AnchorPosts}

SpecAnchor == (\E d \in AnchorDocs : Start(d)) /\ [][Next]_vars

MarkdownLink(t, u) == <<"[">> \o t \o <<"]", "(">> \o u \o <<")">>

\* C1: for an anchor <a href="U">T</a> with link text T and quoted href U,
\* wherever it stands in the document, the output of Convert holds the link
\* [T](U).
C1_AnchorBecomesLink ==
  \A pre \in AnchorPres, q \in AnchorQuotes, u \in AnchorUrls,
     t \in AnchorTexts, post \in AnchorPosts :
    (pc = "done" /\ html_ = AnchorDoc(pre, q, u, t, post))
      => Contains(out, MarkdownLink(t, u))

-----------------------------------------------------------------------------
(* Ignored elements: documents of at most MaxPieces tags and texts *)

MaxPieces == 4

IgnoredPieces ==
  {Tag(kTagNav), EndTag(kTagNav), Tag(kTagPre), EndTag(kTagPre),
   EndTag(kTagBold), Tag(kTagBreak), <<"x">>}

\* <template><pre>x</pre></template>
kScenarioTemplate ==
  Tag(kTagTemplate) \o Tag(kTagPre) \o <<"x">> \o EndTag(kTagPre)
    \o EndTag(kTagTemplate)

IgnoredDocs == Composed(IgnoredPieces, MaxPieces) \cup {kScenarioTemplate}

SpecIgnored == (\E d \in IgnoredDocs : Start(d)) /\ [][Next]_vars

\* the names whose elements the specification says emit no text
SuppressedNames == {kTagScript, kTagStyle, kTagTemplate, kTagNav, kTagNoScript}
EscapingNames == {kTagPre, kTagTitle}

InSuppressed(es) == \E i \in 1..Len(es) : es[i] \in SuppressedNames
InEscaping(es) == \E i \in 1..Len(es) : es[i] \in EscapingNames
\* a pre or title element inside a suppressed element
EscapingInsideSuppressed(es) ==
  \E i \in 1..Len(es), j \in 1..Len(es) :
    i < j /\ es[i] \in SuppressedNames /\ es[j] \in EscapingNames

\* the step that handles a character of text
ContentStep == Scanning /\ ~is_in_tag_ /\ html[pos] # LT

\* C2: a text character between the opening tag of a script, style, template,
\* nav or noscript element and its closing tag, and not inside a pre or title,
\* is never appended to the buffer.
C2_SuppressedTextNeverAppended ==
  [][(ContentStep /\ InSuppressed(elems) /\ ~InEscaping(elems)) => md_' = md_]_vars

\* C3: the text of a pre or title element that is nested inside a script,
\* style, template, nav or noscript element is emitted all the same.
C3_EscapingTextEmitted ==
  [][(ContentStep /\ html[pos] = "x" /\ EscapingInsideSuppressed(elems))
       => md_' = Append(md_, "x")]_vars

-----------------------------------------------------------------------------
(* Blank lines: documents of at most MaxBlocks texts and block tags *)

MaxBlocks == 4

BlockPieces ==
  {<<"x">>, Tag(kTagHeader2), EndTag(kTagHeader2), EndTag(kTagParagraph), Tag(kTagListItem)}

BlockDocs == Composed(BlockPieces, MaxBlocks)

SpecBlankLines == (\E d \in BlockDocs : Start(d)) /\ [][Next]_vars

\* a line of s is a lone asterisk, as an empty list item leaves one
HasLoneAsterisk(s) == Contains(s, <<NL, "*", NL>>)

\* C5 as claimed: the output of Convert has no run of three or more newlines.
C5_NoTripleNewline == pc = "done" => ~HasNewlineRun(out, 3)

\* C5 as amended: what TidyAllLines returns has no run of four or more
\* newlines (at most two empty lines stay in a row), and neither has the
\* output of Convert unless a line of that text is a lone asterisk.
C5_AtMostTwoEmptyLines ==
  pc = "done" =>
    /\ ~HasNewlineRun(tidied, 4)
    /\ ~HasLoneAsterisk(tidied) => ~HasNewlineRun(out, 4)

\* a buffer with four empty lines in a row, of which two are left
C5_Witness ==
  /\ pc = "done"
  /\ HasNewlineRun(md_, 5)
  /\ HasNewlineRun(tidied, 3)
  /\ HasNewlineRun(out, 3)

-----------------------------------------------------------------------------
(* The normalizer as a function: CleanUpMarkdown applied to a buffer, and    *)
(* then to its own result                                                   *)

MaxBuffer == 5

BufferChars == {"a", SP, NL, ",", "."}

Buffers == SeqsUpTo(BufferChars, MaxBuffer)

InitNormalizer ==
  /\ pc = "normalize"
  /\ md_ \in Buffers
  /\ html = <<>>
  /\ html_ = <<>>
  /\ pos = 1
  /\ index_ch_in_html_ = 0
  /\ offset_lt_ = 0
  /\ is_in_tag_ = FALSE
  /\ is_closing_tag_ = FALSE
  /\ is_in_attribute_value_ = FALSE
  /\ prev_ch_in_md_ = Indet
  /\ prev_prev_ch_in_md_ = Indet
  /\ prev_ch_in_html_ = "x"
  /\ current_tag_ = <<>>
  /\ prev_tag_ = <<>>
  /\ current_href_ = <<>>
  /\ chars_in_curr_line_ = 0
  /\ char_index_in_tag_content = 0
  /\ md_len_ = 0
  /\ dom_tags_ = <<>>
  /\ tidied = <<>>
  /\ out = <<>>
  /\ oob = FALSE
  /\ tag_at = 0
  /\ elems = <<>>
  /\ prior = <<>>

\* CleanUpMarkdown(&md) with md the buffer md_
Normalize ==
  /\ pc = "normalize"
  /\ tidied' = TidyAllLines(md_)
  /\ out' = CleanUpMarkdownOf(md_)
  /\ pc' = "normalized"
  /\ UNCHANGED <<prior, html, pos, html_, index_ch_in_html_, offset_lt_, is_in_tag_,
                 is_closing_tag_, is_in_attribute_value_, prev_ch_in_md_,
                 prev_prev_ch_in_md_, prev_ch_in_html_, current_tag_, prev_tag_,
                 current_href_, chars_in_curr_line_, char_index_in_tag_content,
                 md_, md_len_, dom_tags_, oob, tag_at, elems>>

\* CleanUpMarkdown(&md) once more, with md its own first result
Renormalize ==
  /\ pc = "normalized"
  /\ md_' = out
  /\ tidied' = TidyAllLines(out)
  /\ out' = CleanUpMarkdownOf(out)
  /\ pc' = "renormalized"
  /\ UNCHANGED <<prior, html, pos, html_, index_ch_in_html_, offset_lt_, is_in_tag_,
                 is_closing_tag_, is_in_attribute_value_, prev_ch_in_md_,
                 prev_prev_ch_in_md_, prev_ch_in_html_, current_tag_, prev_tag_,
                 current_href_, chars_in_curr_line_, char_index_in_tag_content,
                 md_len_, dom_tags_, oob, tag_at, elems>>

NextNormalizer == Normalize \/ Renormalize

SpecNormalizer == InitNormalizer /\ [][NextNormalizer]_vars

\* C6: CleanUpMarkdown applied to its own result returns that result.
C6_NormalizerIdempotent == pc = "renormalized" => out = md_

-----------------------------------------------------------------------------
(* Bold: one matched <b> element around at most MaxInner texts, line breaks  *)
(* and matched nav elements, none of which holds an asterisk                *)

MaxInner == 3

\* a nav element with the given content
NavOf(content) == Tag(kTagNav) \o content \o EndTag(kTagNav)

BoldPieces ==
  {NavOf(<<>>), NavOf(Tag(kTagBreak)), NavOf(<<"x">>), Tag(kTagBreak), <<"x">>}

BoldDocs ==
  {Tag(kTagBold) \o inner \o EndTag(kTagBold) : inner \in Composed(BoldPieces, MaxInner)}

SpecBold == (\E d \in BoldDocs : Start(d)) /\ [][Next]_vars

\* the occurrences of ** in s, counted left to right without overlap
RECURSIVE CountMarkers(_)
CountMarkers(s) ==
  IF Len(s) < 2 THEN 0
  ELSE IF s[1] = "*" /\ s[2] = "*" THEN 1 + CountMarkers(Drop(s, 3))
  ELSE CountMarkers(Tail(s))

\* C7: the output for a document whose b element is closed, and whose text
\* has no asterisk, holds an even number of ** markers.
C7_EvenEmphasisMarkers == pc = "done" => CountMarkers(out) % 2 = 0

-----------------------------------------------------------------------------
(* Wrapping: at most MaxWords words of WordLen characters, each followed by  *)
(* a blank or by a tag                                                      *)

MaxWords == 5

WordLen == 20

Word == [i \in 1..WordLen |-> "x"]

WordSeparators == {<<SP>>, Tag(kTagSpan)}

WrapDocs ==
  UNION {{Flatten([i \in 1..n |-> Word \o seps[i]]) : seps \in [1..n -> WordSeparators]} :
           n \in 1..MaxWords}

SpecWrap == (\E d \in WrapDocs : Start(d)) /\ [][Next]_vars

\* what follows the last blank of the line (the line, if it has none)
RECURSIVE LastWord(_)
LastWord(line) ==
  IF line = <<>> \/ Last(line) = SP THEN <<>>
  ELSE Append(LastWord(SubSeq(line, 1, Len(line) - 1)), Last(line))

\* C8: no line of the output is longer than the wrap threshold plus its
\* last word, whether the words were separated by blanks or by tags.
C8_LineWithinWrapBound ==
  pc = "done" =>
    \A i \in 1..Len(Explode(out, NL)) :
      LET line == Explode(out, NL)[i]
      IN  Len(line) <= kWrapAt + Len(LastWord(line))

-----------------------------------------------------------------------------
(* Title: <title>T</title> with T of at most MaxTitle characters             *)

MaxTitle == 5

TitleChars == {"a", SP, ".", ","}

kScenarioTitle == <<"H", "e", "l", "l", "o">>

\* a title longer than a line
kLongTitle == Flatten([i \in 1..MaxWords |-> IF i = 1 THEN Word ELSE <<SP>> \o Word])

TitleTexts ==
  (SeqsUpTo(TitleChars, MaxTitle) \ {<<>>}) \cup {kScenarioTitle, kLongTitle}

TitleDoc(t) == Tag(kTagTitle) \o t \o EndTag(kTagTitle)

SpecTitle == (\E t \in TitleTexts : Start(TitleDoc(t))) /\ [][Next]_vars

\* the text of the document TitleDoc(t)
TitleTextOf(h) == SubSeq(h, Len(Tag(kTagTitle)) + 1, Len(h) - Len(EndTag(kTagTitle)))

Underlined(t) == t \o <<NL>> \o Repeat(<<"=">>, Len(t)) \o <<NL>>

\* t begins and ends with a character that is no blank
Trimmed(t) == t # <<>> /\ t[1] # SP /\ Last(t) # SP

\* words and punctuation that are left as written: too short to be wrapped,
\* single blanks, none before a full stop, no comma between blanks
Plain(t) ==
  /\ Trimmed(t)
  /\ Len(t) < kWrapAt
  /\ ~Contains(t, <<SP, SP>>)
  /\ ~Contains(t, <<SP, ".">>)
  /\ ~Contains(t, <<SP, ",", SP>>)

\* C9 as claimed: the output for <title>T</title>, T shorter than the wrap
\* width, is T on one line and then a line of as many = as T has characters.
C9_TitleUnderlinedAnyText ==
  (pc = "done" /\ Trimmed(TitleTextOf(html_)) /\ Len(TitleTextOf(html_)) < kWrapAt)
    => Explode(out, NL) = <<TitleTextOf(html_), Repeat(<<"=">>, Len(TitleTextOf(html_)))>>

\* C9 as amended: the output for <title>T</title> is T, a newline, as many =
\* as T has characters, and a newline, when T is plain.
C9_TitleUnderlined ==
  (pc = "done" /\ Plain(TitleTextOf(html_))) => out = Underlined(TitleTextOf(html_))

\* a title of two words and a comma, converted
C9_Witness ==
  /\ pc = "done"
  /\ Plain(TitleTextOf(html_))
  /\ Contains(TitleTextOf(html_), <<",", SP>>)
  /\ out = Underlined(TitleTextOf(html_))

-----------------------------------------------------------------------------
(* Paragraphs: <p>A</p><p>B</p> with A and B of at most MaxText characters   *)

MaxText == 3

kScenarioOne == <<"O", "n", "e">>

kScenarioTwo == <<"T", "w", "o">>

ParagraphTexts ==
  {t \in SeqsUpTo({"a", SP}, MaxText) : Plain(t)} \cup {kScenarioOne, kScenarioTwo}

Paragraph(t) == Tag(kTagParagraph) \o t \o EndTag(kTagParagraph)

ParagraphsDoc(a, b) == Paragraph(a) \o Paragraph(b)

SpecParagraphs ==
  (\E a \in ParagraphTexts, b \in ParagraphTexts : Start(ParagraphsDoc(a, b)))
    /\ [][Next]_vars

\* C10: <p>One</p><p>Two</p> gives One, an empty line, Two, and no newline
\* at the end.
C10_NoTrailingNewline ==
  (pc = "done" /\ html_ = ParagraphsDoc(kScenarioOne, kScenarioTwo))
    => out = kScenarioOne \o <<NL, NL>> \o kScenarioTwo

\* what Convert returns instead: <p>A</p><p>B</p> gives A, one empty line, B,
\* and the one newline TidyAllLines leaves at the end.
C10_ParagraphsSeparated ==
  \A a \in ParagraphTexts, b \in ParagraphTexts :
    (pc = "done" /\ html_ = ParagraphsDoc(a, b)) => out = a \o <<NL, NL>> \o b \o <<NL>>

\* the scenario's document, converted, with that newline
C10_Witness ==
  /\ pc = "done"
  /\ html_ = ParagraphsDoc(kScenarioOne, kScenarioTwo)
  /\ out = kScenarioOne \o <<NL, NL>> \o kScenarioTwo \o <<NL>>

-----------------------------------------------------------------------------
(* Lists: <ul><li>A</li><li>B</li></ul> between other content               *)

ListItem(t) == Tag(kTagListItem) \o t \o EndTag(kTagListItem)

kScenarioList ==
  Tag(kTagUnorderedList) \o ListItem(<<"A">>) \o ListItem(<<"B">>)
    \o EndTag(kTagUnorderedList)

\* what comes before the list: nothing, a text, a paragraph, a paragraph and a text
ListPres == {<<>>, <<"x">>, Paragraph(<<"x">>), Paragraph(<<"a">>) \o <<"x">>}

ListPosts == {<<>>, <<"y">>, Paragraph(<<"y">>)}

ListDoc(pre, post) == pre \o kScenarioList \o post

SpecList ==
  (\E pre \in ListPres, post \in ListPosts : Start(ListDoc(pre, post)))
    /\ [][Next]_vars

\* line is one of the lines of s
HasLine(s, line) == \E i \in 1..Len(Explode(s, NL)) : Explode(s, NL)[i] = line

\* the two items as the claim writes them
kListLines == <<"*", SP, "A", NL, "*", SP, "B">>

\* C11: the items of the list are the lines "* A" and "* B", and empty
\* lines (one or two) stand between the content before the list and its
\* first item.
C11_ListItemsOnOwnLines ==
  \A pre \in ListPres, post \in ListPosts :
    (pc = "done" /\ html_ = ListDoc(pre, post)) =>
      /\ HasLine(out, <<"*", SP, "A">>)
      /\ HasLine(out, <<"*", SP, "B">>)
      /\ pre # <<>> =>
           \/ Contains(out, <<"x", NL, NL>> \o kListLines)
           \/ Contains(out, <<"x", NL, NL, NL>> \o kListLines)

-----------------------------------------------------------------------------
(* Script: <script>S</script>V with S of at most MaxScript characters, none *)
(* of them <                                                                *)

MaxScript == 3

ScriptChars == {"s", SP, GT, "/", DQ}

kScenarioVisible == <<"V", "i", "s", "i", "b", "l", "e">>

VisibleTexts == {<<"V">>, kScenarioVisible, <<"a", SP, "b">>}

ScriptDoc(body, v) == Tag(kTagScript) \o body \o EndTag(kTagScript) \o v

SpecScript ==
  (\E body \in SeqsUpTo(ScriptChars, MaxScript), v \in VisibleTexts :
      Start(ScriptDoc(body, v)))
    /\ [][Next]_vars

\* what follows the first </script> of h
AfterScript(h) ==
  Drop(h, Find(h, EndTag(kTagScript), 1) + Len(EndTag(kTagScript)))

\* C12: the output for <script>S</script>V is V, whatever S without < is.
C12_ScriptSuppressed == pc = "done" => out = AfterScript(html_)

\* the scenario's text after a script of three characters
C12_Witness ==
  /\ pc = "done"
  /\ html_ = ScriptDoc(<<"s", SP, GT>>, kScenarioVisible)
  /\ out = kScenarioVisible

-----------------------------------------------------------------------------
(* Two calls of Convert with the same argument in one process.  The second  *)
(* Converter is a new object: its fields without an initialiser hold        *)
(* whatever the memory it is given holds.                                   *)

MaxCallPieces == 2

CallPieces == {Paragraph(<<"a">>), Tag(kTagBold), EndTag(kTagParagraph), <<"x">>}

\* a div at the start of the document, a text, and at most MaxCallPieces pieces
CallDocs ==
  {Tag(kTagDiv) \o <<"x">> \o rest : rest \in Composed(CallPieces, MaxCallPieces)}

\* Convert has returned and is called again, with the argument d
CallWith(d) ==
  /\ pc = "done"
  /\ prior = <<>>
  /\ prior' = <<out>>
  /\ pc' = "prepare"
  /\ html' = d
  /\ html_' = d
  /\ pos' = 1
  /\ index_ch_in_html_' = 0
  /\ offset_lt_' = 0
  /\ is_in_tag_' = FALSE
  /\ is_closing_tag_' = FALSE
  /\ is_in_attribute_value_' = FALSE
  /\ prev_ch_in_md_' = Indet
  /\ prev_prev_ch_in_md_' = Indet
  /\ prev_ch_in_html_' = "x"
  /\ current_tag_' = <<>>
  /\ prev_tag_' = <<>>
  /\ current_href_' = <<>>
  /\ chars_in_curr_line_' = 0
  /\ char_index_in_tag_content' = 0
  /\ md_' = <<>>
  /\ md_len_' = 0
  /\ dom_tags_' = <<>>
  /\ tidied' = <<>>
  /\ out' = <<>>
  /\ oob' = oob
  /\ tag_at' = 0
  /\ elems' = <<>>

\* Convert is called again with the argument of the call that has returned
CallAgain == CallWith(html_)

NextTwoCalls == Next \/ CallAgain

SpecTwoCalls == (\E d \in CallDocs : Start(d)) /\ [][NextTwoCalls]_vars

\* C13: the second call of Convert with the same argument returns what the
\* first call returned.
C13_SameInputSameOutput == (pc = "done" /\ prior # <<>>) => out = prior[1]

-----------------------------------------------------------------------------
(* ShortenMarkdown as a function: one call on a buffer of at most            *)
(* MaxShortenBuffer characters.  The function is private, and every call     *)
(* leaves its argument to the default                                        *)

MaxShortenBuffer == 4

\* int chars = 1
kShortenDefault == 1

InitShorten ==
  /\ pc = "shorten"
  /\ md_ \in SeqsUpTo({"a", "b", SP}, MaxShortenBuffer)
  /\ md_len_ = Len(md_)
  /\ html = <<>>
  /\ html_ = <<>>
  /\ pos = 1
  /\ index_ch_in_html_ = 0
  /\ offset_lt_ = 0
  /\ is_in_tag_ = FALSE
  /\ is_closing_tag_ = FALSE
  /\ is_in_attribute_value_ = FALSE
  /\ prev_ch_in_md_ = Indet
  /\ prev_prev_ch_in_md_ = Indet
  /\ prev_ch_in_html_ = "x"
  /\ current_tag_ = <<>>
  /\ prev_tag_ = <<>>
  /\ current_href_ = <<>>
  /\ chars_in_curr_line_ = 0
  /\ char_index_in_tag_content = 0
  /\ dom_tags_ = <<>>
  /\ tidied = <<>>
  /\ out = <<>>
  /\ oob = FALSE
  /\ tag_at = 0
  /\ elems = <<>>
  /\ prior = <<>>

\* the fields a handler can touch, as the record the buffer operations take
Fields ==
  [md |-> md_, n |-> chars_in_curr_line_, p |-> prev_ch_in_md_,
   pp |-> prev_prev_ch_in_md_, href |-> current_href_, len |-> md_len_]

\* ShortenMarkdown(chars)
ShortenBy(chars) ==
  /\ pc = "shorten"
  /\ LET c == ShortenMarkdown(Fields, chars)
     IN  /\ md_' = c.md
         /\ md_len_' = c.len
         /\ prev_ch_in_md_' = c.p
         /\ prev_prev_ch_in_md_' = c.pp
  /\ pc' = "shortened"
  /\ UNCHANGED <<prior, html, pos, html_, index_ch_in_html_, offset_lt_, is_in_tag_,
                 is_closing_tag_, is_in_attribute_value_, prev_ch_in_html_,
                 current_tag_, prev_tag_, current_href_, chars_in_curr_line_,
                 char_index_in_tag_content, dom_tags_, tidied, out, oob, tag_at,
                 elems>>

\* ShortenMarkdown()
Shorten == ShortenBy(kShortenDefault)

SpecShorten == InitShorten /\ [][Shorten]_vars

\* C14: ShortenMarkdown, called as the code calls it, leaves the buffer
\* without its last character, and empty when it has none.
C14_ShortenClamps ==
  [][Shorten =>
       md_' = IF kShortenDefault > Len(md_) THEN <<>>
              ELSE SubSeq(md_, 1, Len(md_) - kShortenDefault)]_vars

\* ShortenMarkdown has returned from a call on the empty buffer (md_len_ is
\* the length it found)
C14_Witness == pc = "shortened" /\ md_len_ = 0 /\ md_ = <<>>

-----------------------------------------------------------------------------
(* The attribute extractor as a function: one call on a tag text of at most *)
(* MaxTagPieces pieces, which is all of html_                               *)

MaxTagPieces == 5

TagPieces == {kAttributeHref, <<"=">>, <<DQ>>, <<SQ>>, <<"u">>, <<SP>>}

TagTexts == Composed(TagPieces, MaxTagPieces)

InitExtract ==
  /\ pc = "extract"
  /\ html_ \in TagTexts
  /\ html = html_
  /\ pos = 1
  /\ index_ch_in_html_ = Len(html_)
  /\ offset_lt_ = 0
  /\ is_in_tag_ = FALSE
  /\ is_closing_tag_ = FALSE
  /\ is_in_attribute_value_ = FALSE
  /\ prev_ch_in_md_ = Indet
  /\ prev_prev_ch_in_md_ = Indet
  /\ prev_ch_in_html_ = "x"
  /\ current_tag_ = <<>>
  /\ prev_tag_ = <<>>
  /\ current_href_ = <<>>
  /\ chars_in_curr_line_ = 0
  /\ char_index_in_tag_content = 0
  /\ md_ = <<>>
  /\ md_len_ = 0
  /\ dom_tags_ = <<>>
  /\ tidied = <<>>
  /\ out = <<>>
  /\ oob = FALSE
  /\ tag_at = 0
  /\ elems = <<>>
  /\ prior = <<>>

\* TagAnchor::OnHasLeftOpeningTag: current_href_ = RTrim(&md_, true)
\* ->AppendBlank()->AppendToMd("[")->ExtractAttributeFromTagLeftOf(kAttributeHref).
\* AppendBlank looks at prev_ch_in_md_, and at prev_prev_ch_in_md_ behind a '*'
ExtractHref ==
  /\ pc = "extract"
  /\ \E p \in Obs(IF md_ = <<>> THEN prev_ch_in_md_ ELSE Last(md_)) :
       \E pp \in (IF p = "*" THEN ObsPrevPrev(prev_prev_ch_in_md_)
                   ELSE {prev_prev_ch_in_md_}) :
         LET c == [md |-> md_, n |-> chars_in_curr_line_, p |-> p, pp |-> pp,
                   href |-> current_href_, len |-> md_len_]
             r == TagAnchorOpen(c, IsInIgnoredTagOf(dom_tags_),
                                TagSlice(html_, offset_lt_, index_ch_in_html_))
         IN  /\ md_' = r.md
             /\ chars_in_curr_line_' = r.n
             /\ prev_ch_in_md_' = r.p
             /\ prev_prev_ch_in_md_' = r.pp
             /\ current_href_' = r.href
  /\ pc' = "extracted"
  /\ UNCHANGED <<prior, html, pos, html_, index_ch_in_html_, offset_lt_, is_in_tag_,
                 is_closing_tag_, is_in_attribute_value_, prev_ch_in_html_,
                 current_tag_, prev_tag_, char_index_in_tag_content, md_len_,
                 dom_tags_, tidied, out, oob, tag_at, elems>>

SpecExtract == InitExtract /\ [][ExtractHref]_vars

\* the least member of S, or 0 when S is empty
FirstOf(S) == IF S = {} THEN 0 ELSE SetMin(S)

\* the value of attr in tag as the claim describes it
QuotedValue(tag, attr) ==
  LET name == FirstOf({i \in 1..Len(tag) : OccursAt(tag, attr, i)})
      equals == FirstOf({i \in name..Len(tag) : tag[i] = "="})
      opening == FirstOf({i \in equals..Len(tag) : tag[i] \in {DQ, SQ}})
      closing == FirstOf({i \in (opening + 1)..Len(tag) : tag[i] = tag[opening]})
  IN  IF name = 0 \/ equals = 0 \/ opening = 0 \/ closing = 0 THEN <<>>
      ELSE SubSeq(tag, opening + 1, closing - 1)

\* C15: the extractor returns the characters between the first quote after
\* the first = after the name and the next quote of the same kind, and the
\* empty string when the name, the =, the quote or its partner is missing.
C15_ExtractsQuotedValue ==
  pc = "extracted" => current_href_ = QuotedValue(html_, kAttributeHref)

\* a value in double quotes that holds a single quote
C15_Witness ==
  /\ pc = "extracted"
  /\ html_ = kAttributeHref \o <<"=", DQ, SQ, DQ>>
  /\ current_href_ = <<SQ>>

-----------------------------------------------------------------------------
(* Anchors whose tag gives no href value: no href attribute, a value        *)
(* without quotes, quotes of two kinds                                      *)

kNameAttribute == <<SP, "n", "a", "m", "e", "=", "q", "q", "q", "q", "q", "q", "q", "q">>

NoHrefAttributes ==
  {<<>>,
   kNameAttribute,
   <<SP>> \o kAttributeHref \o <<"=", "u">>,
   <<SP>> \o kAttributeHref \o <<"=", DQ, "u", SQ>>}

\* a text that reads like an attribute
kHrefText == kAttributeHref \o <<"=", DQ, "z", DQ>>

NoHrefPres ==
  {<<>>, <<"y">>, Paragraph(<<>>) \o Paragraph(<<>>) \o kHrefText}

NoHrefDoc(pre, attrs) ==
  pre \o <<LT, "a">> \o attrs \o <<GT, "T">> \o EndTag(kTagAnchor)

SpecNoHref ==
  (\E pre \in NoHrefPres, attrs \in NoHrefAttributes : Start(NoHrefDoc(pre, attrs)))
    /\ [][Next]_vars

\* C16: an anchor whose tag gives no href value is converted without
\* failure to the link [T]() with an empty target.
C16_FailedLookupGivesEmptyTarget ==
  /\ pc # "crashed"
  /\ pc = "done" => Contains(out, MarkdownLink(<<"T">>, <<>>))

-----------------------------------------------------------------------------
(* Tags without a handler: documents of at most MaxUnknownPieces pieces     *)

MaxUnknownPieces == 3

\* a name the constructor does not enter into tags_
kTagUnknown == <<"q">>

UnknownPieces ==
  {Tag(kTagUnknown), EndTag(kTagUnknown), Tag(kTagNav), Tag(kTagBold), <<"y">>}

UnknownDocs == Composed(UnknownPieces, MaxUnknownPieces)

SpecUnknown == (\E d \in UnknownDocs : Start(d)) /\ [][Next]_vars

\* the step that leaves a tag of the given name
LeavesTag(name) ==
  Scanning /\ is_in_tag_ /\ html[pos] = GT /\ current_tag_ = name

\* C17: leaving the opening tag of a name without a handler pushes the name
\* on the ancestor stack, and leaving its closing tag pops one entry.
C17_UnknownTagOnStack ==
  [][LeavesTag(kTagUnknown) =>
       dom_tags_' = IF WrittenAsClosing(html, tag_at)
                    THEN SubSeq(dom_tags_, 1, Len(dom_tags_) - 1)
                    ELSE Append(dom_tags_, kTagUnknown)]_vars

-----------------------------------------------------------------------------
(* Letter case: a document with tag names in upper or mixed case, and then  *)
(* the same document in lower case                                          *)

kUpperCase == <<"B", "C", "E", "I", "L", "P", "R", "S", "T">>
kLowerCase == <<"b", "c", "e", "i", "l", "p", "r", "s", "t">>

LowerCasedChar(ch) ==
  IF \E i \in 1..Len(kUpperCase) : kUpperCase[i] = ch
  THEN kLowerCase[CHOOSE i \in 1..Len(kUpperCase) : kUpperCase[i] = ch]
  ELSE ch

LowerCased(str) == [i \in 1..Len(str) |-> LowerCasedChar(str[i])]

CaseNames ==
  {kTagBold, <<"B">>,
   kTagScript, <<"S", "C", "R", "I", "P", "T">>, <<"S", "c", "r", "i", "p", "t">>,
   kTagTitle, <<"T", "i", "t", "l", "e">>, <<"T", "I", "T", "L", "E">>}

\* a text, and an element of the given name around a text
CaseDoc(name) == <<"y">> \o Tag(name) \o <<"x">> \o EndTag(name)

\* Convert is called with the lower-cased argument of the call that has returned
CallLowered == CallWith(LowerCased(html_))

NextCase == Next \/ CallLowered

SpecCase == (\E name \in CaseNames : Start(CaseDoc(name))) /\ [][NextCase]_vars

\* C18: the output for a document is the output for the same document with
\* its tag names in lower case.
C18_CaseInsensitiveTags == (pc = "done" /\ prior # <<>>) => out = prior[1]

-----------------------------------------------------------------------------
(* Stray closing tags: documents with closing tags that close nothing *)

MaxStrayPieces == 3

StrayPieces ==
  {EndTag(kTagBold), EndTag(kTagParagraph), Tag(kTagBold), Tag(kTagUnknown), <<"x">>}

StrayDocs == Composed(StrayPieces, MaxStrayPieces)

SpecStray == (\E d \in StrayDocs : Start(d)) /\ [][Next]_vars

\* the step that dispatches a tag with a handler as a closing tag
DispatchesClosingTag ==
  /\ Scanning /\ is_in_tag_ /\ html[pos] = GT
  /\ current_tag_ # <<>>
  /\ Explode(current_tag_, SP)[1] \in tags_
  /\ is_closing_tag_

\* C19: dispatching a closing tag on an empty ancestor stack leaves the stack
\* empty and ends no conversion; the scan goes on with the next character.
C19_StrayClosingTagIsNoOp ==
  [][(DispatchesClosingTag /\ dom_tags_ = <<>>) =>
       (dom_tags_' = <<>> /\ pc' = pc /\ pos' = pos + 1)]_vars

\* a conversion is over in which </b> was dispatched on an empty stack
C19_Witness ==
  /\ pc = "done"
  /\ html_ = <<"x">> \o EndTag(kTagBold) \o <<"x">>
  /\ dom_tags_ = <<>>
  /\ out = <<"x", "*", "*", "x">>

-----------------------------------------------------------------------------
(* First-level headings: an h1 element after, and before, other content *)

kScenarioHeading == <<"H", "d">>

Header1Pres == {<<>>, <<"x">>, <<"a", "b", SP>>, Paragraph(<<"a">>), Tag(kTagNav)}

Header1Texts ==
  {<<>>, kScenarioHeading, <<"a", SP, "b">>,
   <<"a">> \o Tag(kTagBold) \o <<"c">> \o EndTag(kTagBold)}

Header1Posts == {<<>>, <<"y">>}

Header1Doc(pre, t, post) == pre \o Tag(kTagHeader1) \o t \o EndTag(kTagHeader1) \o post

SpecHeader1 ==
  /\ \E pre \in Header1Pres, t \in Header1Texts, post \in Header1Posts :
       Start(Header1Doc(pre, t, post))
  /\ [][Next]_vars

\* the step that dispatches the closing tag of h1 with a non-empty buffer
ClosesHeader1 ==
  /\ DispatchesClosingTag
  /\ Explode(current_tag_, SP)[1] = kTagHeader1
  /\ Len(md_) > 0

\* the buffer and the line-length counter after the line was underlined
UnderlinedWith(sign) ==
  /\ md_' = md_ \o <<NL>> \o Repeat(<<sign>>, chars_in_curr_line_) \o <<NL, NL>>
  /\ chars_in_curr_line_' = 0

\* C20 (as claimed): on the closing tag of h1 with a non-empty buffer the
\* handler appends a newline, as many "=" as the line-length counter holds and
\* two newlines, and sets the counter to 0.
C20_Header1UnderlinedWithEquals == [][ClosesHeader1 => UnderlinedWith("=")]_vars

\* C20 (as the code does it): on the closing tag of h1 with a non-empty buffer
\* the handler appends a newline, as many "-" as the line-length counter holds
\* and two newlines, and sets the counter to 0.
C20_Header1UnderlinedWithDashes == [][ClosesHeader1 => UnderlinedWith("-")]_vars

\* the closing tag of <h1>Hd</h1> has just been dispatched
C20_Witness ==
  /\ pc = "scan"
  /\ html_ = Header1Doc(<<>>, kScenarioHeading, <<"y">>)
  /\ md_ = kScenarioHeading \o <<SP, NL, "-", "-", NL, NL>>
  /\ chars_in_curr_line_ = 0

-----------------------------------------------------------------------------
(* Comments: documents made of comment delimiters, text and newlines *)

MaxCommentPieces == 4

CommentPieces == {kCommentOpen, kCommentClose, <<"c">>, <<NL>>, <<"-">>, <<"x">>}

CommentDocs == Composed(CommentPieces, MaxCommentPieces)

SpecComment == (\E d \in CommentDocs : Start(d)) /\ [][Next]_vars

\* the end of the comment that starts at p, whatever its content, or 0
WholeCommentEnd(h, p) ==
  LET Q == {q \in (p + 4)..(Len(h) - 2) : OccursAt(h, kCommentClose, q)}
  IN  IF OccursAt(h, kCommentOpen, p) /\ Q # {} THEN SetMin(Q) + 2 ELSE 0

\* h without its comments, leftmost first
RECURSIVE WithoutComments(_)
WithoutComments(h) ==
  LET P == {p \in 1..Len(h) : WholeCommentEnd(h, p) # 0}
  IN  IF P = {} THEN h
      ELSE LET p == SetMin(P)
           IN  SubSeq(h, 1, p - 1) \o WithoutComments(Drop(h, WholeCommentEnd(h, p) + 1))

\* C21: after pre-processing, the scanned text is the document without its
\* comments, whatever the comments contain.
C21_CommentsRemoved == pc # "prepare" => html = WithoutComments(html_)

-----------------------------------------------------------------------------
(* Document head: a head, meta or link element with text and elements in it *)

HeadNames == {kTagHead, kTagMeta, kTagLink}

HeadInners ==
  {<<>>, <<"x">>, <<"x">> \o Tag(kTagBold) \o <<"x">> \o EndTag(kTagBold),
   Tag(kTagSpan) \o <<"x">> \o EndTag(kTagSpan) \o <<"x">>}

HeadOuters == {<<>>, <<"y">>}

HeadDoc(pre, name, inner, post) == pre \o Tag(name) \o inner \o EndTag(name) \o post

SpecHead ==
  /\ \E pre \in HeadOuters, name \in HeadNames, inner \in HeadInners, post \in HeadOuters :
       Start(HeadDoc(pre, name, inner, post))
  /\ [][Next]_vars

\* position p of h lies between an opening tag of the name and its closing tag
InElementOf(h, p, name) ==
  \E i \in 1..(p - 1), j \in (p + 1)..Len(h) :
    /\ OccursAt(h, Tag(name), i)
    /\ OccursAt(h, EndTag(name), j)
    /\ \A k \in i..(p - 1) : ~OccursAt(h, EndTag(name), k)

\* C22: a text character between the opening tag of a head, meta or link
\* element and its closing tag is never appended to the buffer.
C22_HeadTextNeverAppended ==
  [][(ContentStep /\ \E name \in HeadNames : InElementOf(html, pos, name))
       => md_' = md_]_vars

-----------------------------------------------------------------------------
(* The line-length counter: documents of texts, full stops after a blank,   *)
(* inline tags and line breaks                                              *)

MaxCounterPieces == 3

CounterPieces ==
  {<<"x">>, <<SP, ".">>, Tag(kTagBold), EndTag(kTagBold), Tag(kTagBreak),
   EndTag(kTagParagraph)}

CounterDocs == Composed(CounterPieces, MaxCounterPieces)

SpecCounter == (\E d \in CounterDocs : Start(d)) /\ [][Next]_vars

\* C23: while the document is scanned, chars_in_curr_line_ is the number of
\* characters of the buffer after its last newline.
C23_CounterIsLineLength == pc = "scan" => chars_in_curr_line_ = CountLine(0, md_)

-----------------------------------------------------------------------------
(* Block openers: a div, ol or ul after text, a paragraph, a line break or  *)
(* a heading                                                                *)

BlockOpeners == {kTagDiv, kTagOrderedList, kTagUnorderedList}

BlockOpenerPres ==
  {<<"x">>, Paragraph(<<"a">>), Paragraph(<<"a">>) \o <<"x">>,
   <<"x">> \o Tag(kTagBreak), Tag(kTagHeader2) \o <<"x">> \o EndTag(kTagHeader2),
   Tag(kTagNav) \o <<"x">>, <<"x">> \o Tag(kTagBold) \o <<"x">> \o EndTag(kTagBold)}

BlockOpenerDoc(pre, name) == pre \o Tag(name) \o <<"y">>

SpecBlockOpener ==
  /\ \E pre \in BlockOpenerPres, name \in BlockOpeners : Start(BlockOpenerDoc(pre, name))
  /\ [][Next]_vars

\* the step that dispatches a tag with a handler as an opening tag
DispatchesOpeningTag ==
  /\ Scanning /\ is_in_tag_ /\ html[pos] = GT
  /\ current_tag_ # <<>>
  /\ Explode(current_tag_, SP)[1] \in tags_
  /\ ~is_closing_tag_

\* C24: after the opening tag of div, ol or ul is dispatched outside a
\* suppressed subtree with a non-empty buffer, the last two characters of the
\* buffer are newlines.
C24_BlockOpenerLeavesBlankLine ==
  [][(/\ DispatchesOpeningTag
      /\ Explode(current_tag_, SP)[1] \in BlockOpeners
      /\ ~IsInIgnoredTagOf(dom_tags_)
      /\ md_ # <<>>)
       => (Len(md_') >= 2 /\ md_'[Len(md_')] = NL /\ md_'[Len(md_') - 1] = NL)]_vars

-----------------------------------------------------------------------------
(* The closing-tag flag *)

\* the step that handles the '>' of a tag with a name
LeavesNamedTag == Scanning /\ is_in_tag_ /\ html[pos] = GT /\ current_tag_ # <<>>

\* C25: after the '>' that ends a tag, is_closing_tag_ is false.
C25_ClosingFlagCleared == [][LeavesNamedTag => ~is_closing_tag_']_vars

-----------------------------------------------------------------------------
(* Matching pops: elements whose content holds tags that are never closed *)

\* the entries of the ancestor stack with the given name
EntriesOf(dom, name) == {i \in 1..Len(dom) : dom[i] = name}

\* C26: when the closing tag of a name with a handler is dispatched and the
\* ancestor stack holds an entry of that name, the entry removed has that
\* name: the stack holds one entry of the name less, and the entries of other
\* names stay.
C26_ClosingTagPopsItsOwnEntry ==
  [][(DispatchesClosingTag /\ EntriesOf(dom_tags_, Explode(current_tag_, SP)[1]) # {})
       => LET name == Explode(current_tag_, SP)[1]
              i == CHOOSE k \in EntriesOf(dom_tags_, name) :
                     \A j \in EntriesOf(dom_tags_, name) : j <= k
          IN  dom_tags_' = SubSeq(dom_tags_, 1, i - 1) \o Drop(dom_tags_, i + 1)]_vars

-----------------------------------------------------------------------------
(* Blanks: documents of words, blanks and inline tags *)

MaxSpacePieces == 4

SpacePieces ==
  {<<"x">>, <<SP>>, Tag(kTagBold), EndTag(kTagBold), Tag(kTagSpan), EndTag(kTagSpan)}

SpaceDocs == Composed(SpacePieces, MaxSpacePieces)

SpecSpace == (\E d \in SpaceDocs : Start(d)) /\ [][Next]_vars

\* C27: outside suppressed subtrees, a blank of the content is appended
\* unless the buffer is empty or ends in a blank or a newline.
C27_BlankKeptAfterText ==
  [][(/\ ContentStep
      /\ html[pos] = SP
      /\ ~IsInIgnoredTagOf(dom_tags_)
      /\ md_ # <<>>
      /\ Last(md_) \notin {SP, NL})
       => (Len(md_') > Len(md_) /\ SubSeq(md_', 1, Len(md_) + 1) = Append(md_, SP))]_vars

-----------------------------------------------------------------------------
(* Suppressed subtrees: a nav element after text, with text and tags in it *)

MaxNavPieces == 3

NavPieces ==
  {<<"y">>, Tag(kTagBold), EndTag(kTagBold), Tag(kTagHeader1), EndTag(kTagHeader1),
   Tag(kTagAnchor), EndTag(kTagAnchor)}

NavDocs == {<<"x">> \o NavOf(inner) \o <<"z">> : inner \in Composed(NavPieces, MaxNavPieces)}

SpecNav == (\E d \in NavDocs : Start(d)) /\ [][Next]_vars

\* C28: while IsInIgnoredTag() is true, no step of the scan changes the
\* buffer or the line-length counter.
C28_SuppressedStepsLeaveBuffer ==
  [][(Scanning /\ IsInIgnoredTagOf(dom_tags_))
       => (md_' = md_ /\ chars_in_curr_line_' = chars_in_curr_line_)]_vars

-----------------------------------------------------------------------------
(* The position cursor *)

\* C29: while the document is scanned, index_ch_in_html_ is the index of the
\* current character in the scanned text (the number of characters consumed),
\* and inside a tag offset_lt_ is the index of the tag's '<'.
C29_CursorIsPosition ==
  pc = "scan" =>
    /\ index_ch_in_html_ = (pos - 1) % CounterMod
    /\ is_in_tag_ => offset_lt_ = (tag_at - 1) % CounterMod

-----------------------------------------------------------------------------
(* Pre-processed documents: an entity or a comment, then a text and an     *)
(* anchor                                                                   *)

kEntityAmp == <<"&", "a", "m", "p", ";">>
kEntityNbsp == <<"&", "n", "b", "s", "p", ";">>
kScenarioComment == kCommentOpen \o <<"c">> \o kCommentClose

PreparedPres == {<<>>, kEntityAmp, kEntityNbsp, kScenarioComment}

PreparedTexts == {<<>>, <<"x">>, kAttributeHref \o <<"=", DQ, "z", DQ>>}

PreparedAnchors ==
  {Tag(kTagAnchor \o <<SP>> \o kAttributeHref \o <<"=", q, "u", q>>)
     \o <<"t">> \o EndTag(kTagAnchor) : q \in {DQ, SQ}}

SpecPrepared ==
  /\ \E pre \in PreparedPres, t \in PreparedTexts, a \in PreparedAnchors, post \in PreparedPres :
       Start(pre \o t \o a \o post)
  /\ [][Next]_vars

\* C30: once the document is pre-processed, html_, the text the attribute
\* extractor slices, is the text the scanner iterates over.
C30_ExtractorSeesScannedText == pc # "prepare" => html_ = html

-----------------------------------------------------------------------------
(* Entering a tag *)

\* the step that handles a '<' outside a tag
EntersTag == Scanning /\ ~is_in_tag_ /\ html[pos] = LT

\* C31: the step that consumes '<' outside a tag enters the tag with an empty
\* tag name; it appends a blank exactly when the buffer was non-empty and
\* ended in neither blank nor newline, so that afterwards the buffer is empty
\* or ends in a blank or a newline.
C31_EnteringTagSeparates ==
  [][EntersTag =>
       /\ is_in_tag_' /\ current_tag_' = <<>>
       /\ md_' = IF md_ # <<>> /\ Last(md_) \notin {SP, NL} THEN Append(md_, SP) ELSE md_
       /\ md_' = <<>> \/ Last(md_') \in {SP, NL}]_vars

\* in x<br><br> the second tag was entered: the first '<' appended a blank
\* after x, the second, after the blank, appended none
C31_Witness ==
  /\ pc = "scan" /\ is_in_tag_ /\ current_tag_ = <<>>
  /\ html_ = <<"x">> \o Tag(kTagBreak) \o Tag(kTagBreak)
  /\ pos = 7
  /\ md_ = <<"x", SP>>

-----------------------------------------------------------------------------
(* Newlines in content: documents of text, newlines, blanks and pre tags *)

MaxNewlinePieces == 4

NewlinePieces == {<<"x">>, <<NL>>, <<SP>>, Tag(kTagPre), EndTag(kTagPre)}

NewlineDocs == Composed(NewlinePieces, MaxNewlinePieces)

SpecNewline == (\E d \in NewlineDocs : Start(d)) /\ [][Next]_vars

\* the newlines of a buffer
NewlinesOf(md) == {i \in 1..Len(md) : md[i] = NL}

\* C32: the step that handles a newline of the content leaves the buffer as
\* it is, inside pre as well, and the step that handles any other character
\* of the content but a blank adds no newline.
C32_ContentNewlineDropped ==
  [][ContentStep =>
       /\ html[pos] = NL => md_' = md_
       /\ html[pos] # SP => Cardinality(NewlinesOf(md_')) = Cardinality(NewlinesOf(md_))]_vars

\* in <pre>x\nx the newline and the x after it have been handled
C32_Witness ==
  /\ pc = "scan"
  /\ html_ = Tag(kTagPre) \o <<"x", NL, "x">>
  /\ pos = Len(html_) + 1
  /\ dom_tags_ = <<kTagPre>>
  /\ SubSeq(md_, Len(md_) - Len(kFence) - 2, Len(md_)) = kFence \o <<NL, "x", "x">>

-----------------------------------------------------------------------------
(* The soft word-wrap *)

\* the step that handles a blank of the content which is not dropped
AppendsBlank ==
  /\ ContentStep
  /\ html[pos] = SP
  /\ ~SkippedContent(SP, dom_tags_, current_tag_)
  /\ ~DroppedBlank(SP, Len(md_), char_index_in_tag_content,
                   IF md_ = <<>> THEN "." ELSE Last(md_))

\* C33 (as claimed): a blank that arrives while the counter exceeds the wrap
\* threshold puts a newline in its place and resets the counter; a blank that
\* arrives with the counter at or below the threshold is appended alone.
C33_NewlineReplacesBlank ==
  [][AppendsBlank =>
       IF chars_in_curr_line_ > kWrapAt
       THEN md_' = Append(md_, NL) /\ chars_in_curr_line_' = 0
       ELSE md_' = Append(md_, SP)]_vars

\* C33 (as the code does it): a blank that is not dropped is appended and
\* counted; if the counter then exceeds the wrap threshold, a newline follows
\* the blank and the counter is reset, otherwise no newline is appended.
C33_NewlineFollowsBlank ==
  [][AppendsBlank =>
       IF (chars_in_curr_line_ + 1) % CounterMod > kWrapAt
       THEN md_' = md_ \o <<SP, NL>> /\ chars_in_curr_line_' = 0
       ELSE /\ md_' = Append(md_, SP)
            /\ chars_in_curr_line_' = (chars_in_curr_line_ + 1) % CounterMod]_vars

\* a blank arrived at the end of a line of more than kWrapAt characters: the
\* buffer ends in the blank and a newline
C33_Witness ==
  /\ pc = "scan"
  /\ Len(md_) > kWrapAt + 2
  /\ SubSeq(md_, Len(md_) - 2, Len(md_)) = <<"x", SP, NL>>
  /\ \A i \in (Len(md_) - kWrapAt - 1)..(Len(md_) - 1) : md_[i] # NL
  /\ chars_in_curr_line_ = 0

-----------------------------------------------------------------------------
(* Closing an anchor: anchors with and without text, after text and after a *)
(* text that holds an href                                                  *)

ClosingAnchorPres ==
  {<<>>, <<"x">>, <<"x", SP>>, <<"[">>, Paragraph(<<>>) \o Paragraph(<<>>) \o kHrefText}

ClosingAnchorTexts ==
  {<<>>, <<SP>>, <<"t">>, <<"t", SP>>, <<"[">>, Tag(kTagBold) \o EndTag(kTagBold)}

ClosingAnchorPosts == {<<>>, <<"y">>, Tag(kTagAnchor) \o EndTag(kTagAnchor)}

ClosingAnchorDoc(pre, attrs, t, post) ==
  pre \o <<LT, "a">> \o attrs \o <<GT>> \o t \o EndTag(kTagAnchor) \o post

SpecClosingAnchor ==
  /\ \E pre \in ClosingAnchorPres, attrs \in {<<>>, kNameAttribute},
        t \in ClosingAnchorTexts, post \in ClosingAnchorPosts :
       Start(ClosingAnchorDoc(pre, attrs, t, post))
  /\ [][Next]_vars

\* the step that dispatches the closing tag of an anchor outside a suppressed
\* subtree, with something in the buffer
ClosesAnchor ==
  /\ DispatchesClosingTag
  /\ Explode(current_tag_, SP)[1] = kTagAnchor
  /\ ~IsInIgnoredTagOf(dom_tags_)
  /\ md_ # <<>>

\* C34: on the closing tag of an anchor a blank at the end of the buffer is
\* removed; if the buffer then ends in "[", the bracket is removed and
\* nothing is appended; otherwise "](", the href and ") " are appended.
C34_AnchorClosed ==
  [][ClosesAnchor =>
       LET b == IF Last(md_) = SP THEN SubSeq(md_, 1, Len(md_) - 1) ELSE md_
       IN  md_' = IF b # <<>> /\ Last(b) = "["
                  THEN SubSeq(b, 1, Len(b) - 1)
                  ELSE b \o <<"]", "(">> \o current_href_ \o <<")", SP>>]_vars

\* the anchor without text in x<a></a> has been closed: neither bracket nor
\* parenthesis is left
C34_Witness ==
  /\ pc = "scan"
  /\ html_ = ClosingAnchorDoc(<<"x">>, <<>>, <<>>, <<"y">>)
  /\ pos = Len(html_)
  /\ md_ = <<"x", SP>>

-----------------------------------------------------------------------------
(* The deciding ancestor *)

\* the entries of the ancestor stack that are pre or title, or template,
\* style, script, noscript or nav
DecidingEntries(dom) ==
  {i \in 1..Len(dom) : dom[i] \in EscapingNames \cup SuppressedNames}

\* the outermost of them is one of template, style, script, noscript, nav
OutermostDecidesIgnored(dom) ==
  /\ DecidingEntries(dom) # {}
  /\ dom[SetMin(DecidingEntries(dom))] \in SuppressedNames

\* C35: a character of text is left out exactly when the outermost entry of
\* the ancestor stack that is pre, title, template, style, script, noscript
\* or nav is none of pre and title; with no such entry, and inside an ignored
\* element that a pre encloses, the character is appended.
C35_OutermostEntryDecides ==
  [][(ContentStep /\ html[pos] = "x" /\ current_tag_ # kTagLink)
       => IF OutermostDecidesIgnored(dom_tags_)
          THEN md_' = md_
          ELSE md_' = Append(md_, "x")]_vars

\* the text of a nav element inside a pre element has been appended
C35_Witness ==
  /\ pc = "scan"
  /\ dom_tags_ = <<kTagPre, kTagNav>>
  /\ html_ = Tag(kTagPre) \o Tag(kTagNav) \o <<"x">>
  /\ pos = Len(html_) + 1
  /\ md_ # <<>> /\ Last(md_) = "x"

-----------------------------------------------------------------------------
(* Lines of the normalized text *)

\* no line of s begins or ends with a whitespace character: no such
\* character is first or last in s, or next to a newline
LinesTrimmed(s) ==
  \A i \in 1..Len(s) :
    (IsSpace(s[i]) /\ s[i] # NL) =>
      /\ i > 1 /\ s[i - 1] # NL
      /\ i < Len(s) /\ s[i + 1] # NL

\* C37: no line of what CleanUpMarkdown returns begins or ends with a
\* whitespace character.
C37_OutputLinesTrimmed == pc = "normalized" => LinesTrimmed(out)

-----------------------------------------------------------------------------
(* The scan reaches the end of the input *)

\* Convert runs to its end without waiting for anything: a step that can be
\* taken is taken
SpecMalformedFair == SpecMalformed /\ WF_vars(Next)

\* the range-for of Convert2Md has passed the last character
ScannedAll == pos = Len(html) + 1

\* C38: the scan terminates: the loop of Convert2Md handles every character of
\* the input, one after the other, and Convert returns.
C38_ScanReachesEndOfInput == <>(pc = "done" /\ ScannedAll)

-----------------------------------------------------------------------------
(* Documents of more than 65535 counted characters: an unknown tag <q aa...a> *)
(* with a long attribute, every character of which is counted while the       *)
(* buffer stays empty, and a few pieces behind it                             *)

MaxBeforeWrap == 2

MaxLongPieces == 2

\* the values of index_ch_in_html_ behind the long tag: just below the modulus
LongCounts == {CounterMod - k : k \in 1..MaxBeforeWrap}

\* <q aa...a>, counted as n characters: the q, the blank and n - 2 letters
LongTag(n) ==
  [i \in 1..(n + 2) |-> IF i = 1 THEN LT
                        ELSE IF i = 2 THEN "q"
                        ELSE IF i = 3 THEN SP
                        ELSE IF i = n + 2 THEN GT ELSE "a"]

LongPieces == {Tag(kTagBold), <<"x">>, <<LT, "q", SP, "a", GT>>}

LongRests == Composed(LongPieces, MaxLongPieces)

\* the fields when Convert2Md has handled LongTag(n) at the head of a
\* document: OnHasEnteredTag, ParseCharInTag for the n counted characters, and
\* OnHasLeftTag, which finds no handler for q and reads md_[md_len_ - 1] of
\* the empty buffer
AfterLongTag(n, rest) ==
  /\ pc = "scan"
  /\ html = LongTag(n) \o rest
  /\ html_ = LongTag(n) \o rest
  /\ pos = n + 3
  /\ index_ch_in_html_ = n % CounterMod
  /\ offset_lt_ = 0
  /\ is_in_tag_ = FALSE
  /\ is_closing_tag_ = FALSE
  /\ is_in_attribute_value_ = FALSE
  /\ prev_ch_in_md_ = Indet
  /\ prev_prev_ch_in_md_ = Indet
  /\ prev_ch_in_html_ = "x"
  /\ current_tag_ = kTagUnknown
  /\ prev_tag_ = <<>>
  /\ current_href_ = <<>>
  /\ chars_in_curr_line_ = 0
  /\ char_index_in_tag_content = 0
  /\ md_ = <<>>
  /\ md_len_ = 0
  /\ dom_tags_ = <<>>
  /\ tidied = <<>>
  /\ out = <<>>
  /\ oob = TRUE
  /\ tag_at = 1
  /\ elems = <<kTagUnknown>>
  /\ prior = <<>>

\* Convert of a short document, or Convert2Md behind a long tag
InitLong ==
  \E rest \in LongRests :
    \/ Start(rest)
    \/ \E n \in LongCounts : AfterLongTag(n, rest)

SpecLong == InitLong /\ [][Next]_vars

\* Convert2Md is at the '>' that ends a tag
AtTagDispatch == Scanning /\ is_in_tag_ /\ html[pos] = GT

\* C39: at every tag dispatch offset_lt_ <= index_ch_in_html_: the length of
\* the tag slice, index_ch_in_html_ - offset_lt_, is not negative.
C39_SliceLengthNonNegative == AtTagDispatch => offset_lt_ <= index_ch_in_html_

-----------------------------------------------------------------------------
(* strong for b: a document and the same document with every b tag written   *)
(* as a strong tag                                                            *)

MaxStrongEquals == 8

MaxStrongLetters == 16

\* every b tag of str, opening or closing, with or without attributes, written
\* as a strong tag
WithStrong(str) ==
  LET opened == ReplaceFrom(str, <<LT>> \o kTagBold \o <<GT>>, Tag(kTagStrong), 1)
      attributed == ReplaceFrom(opened, <<LT>> \o kTagBold \o <<SP>>,
                                <<LT>> \o kTagStrong \o <<SP>>, 1)
  IN  ReplaceFrom(attributed, EndTag(kTagBold), EndTag(kTagStrong), 1)

StrongTexts == {<<"x">>, kAttributeHref \o <<"=", SQ, "z", SQ>>}

StrongBolds == {Tag(kTagBold) \o EndTag(kTagBold),
                Tag(kTagBold) \o <<"y">> \o EndTag(kTagBold)}

\* an unknown tag with k characters '=', a text, a bold element, and a link
\* whose tag has n letters behind its name
StrongDoc(k, text, bold, n) ==
  <<LT, "q", SP>> \o [i \in 1..k |-> "="] \o <<GT>> \o text \o bold
    \o <<LT, "a", SP>> \o [i \in 1..n |-> "a"] \o <<GT, "t">> \o EndTag(kTagAnchor)

StrongDocs ==
  {StrongDoc(k, text, bold, n) :
     k \in (MaxStrongEquals - 1)..MaxStrongEquals, text \in StrongTexts,
     bold \in StrongBolds, n \in (MaxStrongLetters - 1)..MaxStrongLetters}

\* Convert is called with the argument of the call that has returned, strong
\* written for b
CallWithStrong == CallWith(WithStrong(html_))

NextStrong == Next \/ CallWithStrong

SpecStrong == (\E d \in StrongDocs : Start(d)) /\ [][NextStrong]_vars

\* C36: strong and b are interchangeable: the scan of a document and the scan
\* of the same document with strong for b end with the same buffer, so that
\* Convert returns the same text for both.
C36_StrongIsBold == (pc = "done" /\ prior # <<>>) => out = prior[1]

====
